---------------------------- MODULE Spec2Model ----------------------------
(***************************************************************************)
(* Model of the EC2 provider extension (src/src/lib.rs): the action        *)
(* catalog (list_actions, get_action_definition), the synchronous dispatch *)
(* entry point execute_action, the lazily built API client (get_client)    *)
(* and the per-action operations with their response normalisation.        *)
(*                                                                         *)
(* The cloud API is the environment: every request the extension sends is  *)
(* answered by one response drawn from a small set of outputs and errors.  *)
(***************************************************************************)
EXTENDS Integers, Sequences, FiniteSets, TLC

(***************************************************************************)
(* Bounds of the model.                                                    *)
(***************************************************************************)
\* number of execute_action calls made on the one extension instance
MaxCalls == 2

(***************************************************************************)
(* Values.                                                                 *)
(***************************************************************************)
\* Option<T>
None == [some |-> FALSE]
Some(x) == [some |-> TRUE, v |-> x]

\* serde_json::Value, as far as parameters use it
JString(s) == [t |-> "str", s |-> s]
JNumber(n) == [t |-> "int", n |-> n]

\* An i64 is held as hi * 2^31 + lo with 0 <= lo < 2^31, so that values
\* beyond 32 bits can be written with 32-bit numbers
I64(hi, lo) == [hi |-> hi, lo |-> lo]

\* Result<T, String>
Ok(x) == [kind |-> "Ok", value |-> x]
Err(m) == [kind |-> "Err", msg |-> m]

\* i64 `as i32`: the low 32 bits, read as two's complement
AsI32(n) == IF n.hi % 2 = 0 THEN n.lo ELSE (n.lo - 2147483647) - 1

\* i32 `as i64`
AsI64(s) == IF s < 0 THEN I64(-1, (s + 2147483647) + 1) ELSE I64(0, s)

(***************************************************************************)
(* lib_cpi::validation, as execute_action uses it.                         *)
(***************************************************************************)
ValidationErr(name, why) == Err(<<"parameter", name, why>>)

extract_string(params, name) ==
    IF name \notin DOMAIN params THEN ValidationErr(name, "missing")
    ELSE IF params[name].t = "str" THEN Ok(params[name].s)
    ELSE ValidationErr(name, "not a string")

\* mutant: a value of the wrong type is taken as absent
extract_string_opt_lenient(params, name) ==
    IF name \notin DOMAIN params \/ params[name].t # "str" THEN Ok(None)
    ELSE Ok(Some(params[name].s))

extract_string_opt(params, name) ==
    IF name \notin DOMAIN params THEN Ok(None)
    ELSE IF params[name].t = "str" THEN Ok(Some(params[name].s))
    ELSE ValidationErr(name, "not a string")

extract_int(params, name) ==
    IF name \notin DOMAIN params THEN ValidationErr(name, "missing")
    ELSE IF params[name].t = "int" THEN Ok(params[name].n)
    ELSE ValidationErr(name, "not an integer")

\* Result::ok(): Ok(v) -> Some(v), Err(_) -> None
ResultOk(r) == IF r.kind = "Ok" THEN Some(r.value) ELSE None

\* Option<Option<T>>::flatten()
Flatten(o) == IF o.some THEN o.v ELSE None

\* Option::unwrap_or
UnwrapOr(o, d) == IF o.some THEN o.v ELSE d

(***************************************************************************)
(* AwsExtension::new                                                       *)
(***************************************************************************)
new ==
    [name |-> "ec2",
     provider_type |-> "cloud",
     default_settings |->
        [region |-> "us-east-1",
         instance_type |-> "t2.micro",
         ami |-> "ami-0c55b159cbfafe1f0",
         availability_zone |-> "us-east-1a",
         volume_type |-> "gp2"],
     ec2_client |-> None]

(***************************************************************************)
(* The catalog: list_actions and get_action_definition.                    *)
(***************************************************************************)
list_actions ==
    <<"test_install", "list_workers", "create_worker", "delete_worker",
      "get_worker", "has_worker", "start_worker", "get_volumes",
      "has_volume", "create_volume", "delete_volume", "attach_volume",
      "detach_volume", "create_snapshot", "delete_snapshot", "has_snapshot",
      "reboot_worker", "set_worker_metadata", "snapshot_volume">>

Listed == {list_actions[i] : i \in 1..Len(list_actions)}

\* param!(name, description, type, required)
Req(n, ty) == [name |-> n, type |-> ty, required |-> TRUE, default |-> None]
\* param!(name, description, type, optional, default)
Opt(n, ty, d) == [name |-> n, type |-> ty, required |-> FALSE, default |-> Some(d)]

RegionParam == Opt("region", "String", "us-east-1")

Definition(n, ps) == Some([name |-> n, parameters |-> ps])

get_action_definition(action) ==
    CASE action = "test_install" ->
            Definition("test_install", <<RegionParam>>)
      [] action = "list_workers" ->
            Definition("list_workers", <<RegionParam>>)
      [] action = "create_worker" ->
            Definition("create_worker",
                <<Req("worker_name", "String"),
                  Opt("instance_type", "String", "t2.micro"),
                  Opt("ami", "String", "ami-0c55b159cbfafe1f0"),
                  RegionParam>>)
      [] action = "delete_worker" ->
            Definition("delete_worker", <<Req("worker_id", "String"), RegionParam>>)
      [] action = "get_worker" ->
            Definition("get_worker", <<Req("worker_id", "String"), RegionParam>>)
      [] action = "has_worker" ->
            Definition("has_worker", <<Req("worker_id", "String"), RegionParam>>)
      [] action = "start_worker" ->
            Definition("start_worker", <<Req("worker_id", "String"), RegionParam>>)
      [] action = "get_volumes" ->
            Definition("get_volumes", <<RegionParam>>)
      [] action = "has_volume" ->
            Definition("has_volume", <<Req("volume_id", "String"), RegionParam>>)
      [] action = "create_volume" ->
            Definition("create_volume",
                <<Req("size_gb", "Integer"),
                  Req("availability_zone", "String"),
                  Opt("volume_type", "String", "gp2"),
                  RegionParam>>)
      [] action = "delete_volume" ->
            Definition("delete_volume", <<Req("volume_id", "String"), RegionParam>>)
      [] action = "attach_volume" ->
            Definition("attach_volume",
                <<Req("worker_id", "String"),
                  Req("volume_id", "String"),
                  Req("device_name", "String"),
                  RegionParam>>)
      [] action = "detach_volume" ->
            Definition("detach_volume", <<Req("volume_id", "String"), RegionParam>>)
      [] action = "create_snapshot" ->
            Definition("create_snapshot",
                <<Req("volume_id", "String"),
                  Req("snapshot_name", "String"),
                  RegionParam>>)
      [] action = "delete_snapshot" ->
            Definition("delete_snapshot", <<Req("snapshot_id", "String"), RegionParam>>)
      [] action = "has_snapshot" ->
            Definition("has_snapshot", <<Req("snapshot_id", "String"), RegionParam>>)
      [] action = "reboot_worker" ->
            Definition("reboot_worker", <<Req("worker_id", "String"), RegionParam>>)
      [] action = "set_worker_metadata" ->
            Definition("set_worker_metadata",
                <<Req("worker_id", "String"),
                  Req("key", "String"),
                  Req("value", "String"),
                  RegionParam>>)
      [] action = "snapshot_volume" ->
            Definition("snapshot_volume",
                <<Req("source_volume_id", "String"),
                  Req("snapshot_name", "String"),
                  RegionParam>>)
      [] OTHER -> None

(***************************************************************************)
(* The API client and get_client.                                          *)
(***************************************************************************)
\* A client handle: `id` tells the handles apart (the n-th client built for
\* this extension instance), `region` is the region it is configured for.
Client(id, region) == [id |-> id, region |-> region]

\* RegionProviderChain::first_try(Region::new(region)): the first provider
\* always yields the region it was given
RegionProviderChain(region) == region

\* get_client(&mut self, region_str) -> (self', client, built')
\* `built` are the clients constructed so far, in order
get_client(self, region_str, built) ==
    LET region == UnwrapOr(region_str, "us-east-1") IN
    IF self.ec2_client.some
    THEN [self |-> self, client |-> self.ec2_client.v, built |-> built]
    ELSE LET client == Client(Len(built) + 1, RegionProviderChain(region)) IN
         [self |-> [self EXCEPT !.ec2_client = Some(client)],
          client |-> client,
          built |-> Append(built, client)]

(***************************************************************************)
(* Responses of the API: Ok(output) or Err(error).  The text of an error   *)
(* (its {:?} rendering) is a sequence of fragments.                        *)
(***************************************************************************)
ApiOk(out) == [ok |-> TRUE, out |-> out]
ApiErr(text) == [ok |-> FALSE, err |-> text]

\* format!("{:?}", err).contains(code)
Contains(text, code) == \E i \in DOMAIN text : text[i] = code

\* mutant: the failure is swallowed
Failed_Swallowed(prefix, resp) == Ok([success |-> TRUE])

\* .map_err(|e| format!("<prefix>{:?}", e))
Failed(prefix, resp) == Err(<<prefix>> \o resp.err)

\* mutant: a "Name" tag without a value is passed over
RECURSIVE get_name_from_tags_SkipEmpty(_)
get_name_from_tags_SkipEmpty(tags) ==
    IF tags = <<>> THEN "unnamed"
    ELSE IF Head(tags).key = Some("Name") /\ Head(tags).value.some
         THEN Head(tags).value.v
         ELSE get_name_from_tags_SkipEmpty(Tail(tags))

\* get_name_from_tags: the value of the first tag whose key is "Name"
RECURSIVE get_name_from_tags(_)
get_name_from_tags(tags) ==
    IF tags = <<>> THEN "unnamed"
    ELSE IF Head(tags).key = Some("Name")
         THEN UnwrapOr(Head(tags).value, "unnamed")
         ELSE get_name_from_tags(Tail(tags))

\* One instance of the response in the simplified form
Worker(instance) ==
    [id |-> instance.instance_id.v,
     name |-> get_name_from_tags(instance.tags),
     state |-> UnwrapOr(instance.state, "unknown"),
     instance_type |-> UnwrapOr(instance.instance_type, "unknown"),
     public_ip |-> instance.public_ip_address,
     private_ip |-> instance.private_ip_address]

RECURSIVE WorkersOf(_)
WorkersOf(instances) ==
    IF instances = <<>> THEN <<>>
    ELSE (IF Head(instances).instance_id.some
          THEN <<Worker(Head(instances))>> ELSE <<>>)
         \o WorkersOf(Tail(instances))

RECURSIVE parse_ec2_instances(_)
parse_ec2_instances(reservations) ==
    IF reservations = <<>> THEN <<>>
    ELSE WorkersOf(Head(reservations)) \o parse_ec2_instances(Tail(reservations))

\* The i32 product size * 1024 does not fit in 32 bits
size_mb_overflows(size) ==
    UnwrapOr(size, 0) >= 2097152 \/ UnwrapOr(size, 0) < -2097152

\* (volume.size().unwrap_or(0) * 1024) as i64: the product is an i32; when it
\* overflows it wraps to its low 32 bits (overflow checks off) or the
\* multiplication panics (overflow checks on, see parse_ec2_volumes_panics)
size_mb(size) ==
    LET r == UnwrapOr(size, 0) % 4194304 IN
    AsI64(IF r < 2097152 THEN r * 1024 ELSE (r - 4194304) * 1024)

Volume(volume) ==
    [id |-> volume.volume_id.v,
     path |-> volume.volume_id.v,
     size_mb |-> size_mb(volume.size),
     state |-> UnwrapOr(volume.state, "unknown"),
     availability_zone |-> UnwrapOr(volume.availability_zone, "unknown"),
     attached_to |->
        IF volume.attachments = <<>> THEN None
        ELSE Head(volume.attachments).instance_id]

RECURSIVE parse_ec2_volumes(_)
parse_ec2_volumes(volumes) ==
    IF volumes = <<>> THEN <<>>
    ELSE (IF Head(volumes).volume_id.some
          THEN <<Volume(Head(volumes))>> ELSE <<>>)
         \o parse_ec2_volumes(Tail(volumes))

\* parse_ec2_volumes reaches a volume whose size_mb overflows
parse_ec2_volumes_panics(volumes) ==
    \E i \in DOMAIN volumes :
        volumes[i].volume_id.some /\ size_mb_overflows(volumes[i].size)

(***************************************************************************)
(* The operations of impl AwsExtension.  Each operation obtains the client,*)
(* sends one request (<name>_request) and turns the response into its      *)
(* ActionResult (<name>).                                                  *)
(***************************************************************************)
Tag(k, v) == [key |-> Some(k), value |-> Some(v)]

\* mutant: an unmatched instance type is passed on as it is
InstanceTypeEnum_PassThrough(instance_type) == instance_type

\* Convert instance type string to enum (an enum value is written as the
\* name the API knows it by)
InstanceTypeEnum(instance_type) ==
    IF instance_type \in {"t2.micro", "t2.small", "t2.medium", "t3.micro",
                          "t3.small", "t3.medium", "m5.large", "m5.xlarge"}
    THEN instance_type
    ELSE "t2.micro"

list_workers_request == [op |-> "DescribeInstances", instance_ids |-> <<>>]

list_workers(resp) ==
    IF ~resp.ok THEN Failed("Failed to list EC2 instances: ", resp)
    ELSE Ok([workers |-> parse_ec2_instances(resp.out)])

create_worker_request(worker_name, instance_type, ami) ==
    [op |-> "RunInstances",
     image_id |-> ami,
     instance_type |-> InstanceTypeEnum(instance_type),
     min_count |-> 1,
     max_count |-> 1,
     tag_specifications |->
        <<[resource_type |-> "instance", tags |-> <<Tag("Name", worker_name)>>]>>]

create_worker(worker_name, resp) ==
    IF ~resp.ok THEN Failed("Failed to create EC2 instance: ", resp)
    ELSE IF resp.out # <<>> /\ Head(resp.out).instance_id.some
         THEN Ok([success |-> TRUE,
                  id |-> Head(resp.out).instance_id.v,
                  name |-> worker_name])
         ELSE Err(<<"No instance was created">>)

delete_worker_request(worker_id) ==
    [op |-> "TerminateInstances", instance_ids |-> <<worker_id>>]

delete_worker(resp) ==
    IF ~resp.ok THEN Failed("Failed to terminate EC2 instance: ", resp)
    ELSE Ok([success |-> TRUE])

get_worker_request(worker_id) ==
    [op |-> "DescribeInstances", instance_ids |-> <<worker_id>>]

get_worker(worker_id, resp) ==
    IF ~resp.ok THEN Failed("Failed to get EC2 instance details: ", resp)
    ELSE IF resp.out # <<>> /\ Head(resp.out) # <<>>
         THEN LET instance == Head(Head(resp.out)) IN
              Ok([success |-> TRUE,
                  vm |-> [name |-> get_name_from_tags(instance.tags),
                          id |-> UnwrapOr(instance.instance_id, "unknown"),
                          state |-> UnwrapOr(instance.state, "unknown"),
                          instance_type |-> UnwrapOr(instance.instance_type, "unknown"),
                          public_ip |-> instance.public_ip_address,
                          private_ip |-> instance.private_ip_address,
                          availability_zone |-> instance.availability_zone]])
         ELSE Err(<<"Instance with ID ", worker_id, " not found">>)

has_worker_request(worker_id) ==
    [op |-> "DescribeInstances", instance_ids |-> <<worker_id>>]

has_worker(resp) ==
    IF resp.ok
    THEN Ok([success |-> TRUE,
             exists |-> \E i \in DOMAIN resp.out : resp.out[i] # <<>>])
    ELSE IF Contains(resp.err, "InvalidInstanceID.NotFound")
         THEN Ok([success |-> TRUE, exists |-> FALSE])
         ELSE Failed("Failed to check if instance exists: ", resp)

start_worker_request(worker_id) ==
    [op |-> "StartInstances", instance_ids |-> <<worker_id>>]

start_worker(worker_id, resp) ==
    IF ~resp.ok THEN Failed("Failed to start EC2 instance: ", resp)
    ELSE Ok([success |-> TRUE, started |-> worker_id])

get_volumes_request == [op |-> "DescribeVolumes", volume_ids |-> <<>>]

get_volumes(resp) ==
    IF ~resp.ok THEN Failed("Failed to list EBS volumes: ", resp)
    ELSE Ok([success |-> TRUE, volumes |-> parse_ec2_volumes(resp.out)])

has_volume_request(volume_id) ==
    [op |-> "DescribeVolumes", volume_ids |-> <<volume_id>>]

\* mutant: every failure is read as "not found"
has_volume_AnyError(resp) ==
    IF resp.ok
    THEN Ok([success |-> TRUE, exists |-> resp.out # <<>>])
    ELSE Ok([success |-> TRUE, exists |-> FALSE])

has_volume(resp) ==
    IF resp.ok
    THEN Ok([success |-> TRUE, exists |-> resp.out # <<>>])
    ELSE IF Contains(resp.err, "InvalidVolume.NotFound")
         THEN Ok([success |-> TRUE, exists |-> FALSE])
         ELSE Failed("Failed to check if volume exists: ", resp)

create_volume_request(size_gb, availability_zone, volume_type) ==
    [op |-> "CreateVolume",
     availability_zone |-> availability_zone,
     size |-> AsI32(size_gb),
     volume_type |-> volume_type]

create_volume(resp) ==
    IF ~resp.ok THEN Failed("Failed to create EBS volume: ", resp)
    ELSE IF resp.out.some
         THEN Ok([success |-> TRUE, id |-> resp.out.v, path |-> resp.out.v])
         ELSE Err(<<"No volume ID was returned">>)

delete_volume_request(volume_id) ==
    [op |-> "DeleteVolume", volume_id |-> volume_id]

delete_volume(resp) ==
    IF ~resp.ok THEN Failed("Failed to delete EBS volume: ", resp)
    ELSE Ok([success |-> TRUE])

attach_volume_request(worker_id, volume_id, device_name) ==
    [op |-> "AttachVolume",
     instance_id |-> worker_id,
     volume_id |-> volume_id,
     device |-> device_name]

attach_volume(resp) ==
    IF ~resp.ok THEN Failed("Failed to attach EBS volume: ", resp)
    ELSE Ok([success |-> TRUE])

detach_volume_request(volume_id) ==
    [op |-> "DetachVolume", volume_id |-> volume_id]

detach_volume(resp) ==
    IF ~resp.ok THEN Failed("Failed to detach EBS volume: ", resp)
    ELSE Ok([success |-> TRUE])

create_snapshot_request(volume_id, snapshot_name) ==
    [op |-> "CreateSnapshot",
     volume_id |-> volume_id,
     description |-> <<"Snapshot of ", volume_id>>,
     tag_specifications |->
        <<[resource_type |-> "snapshot", tags |-> <<Tag("Name", snapshot_name)>>]>>]

create_snapshot(resp) ==
    IF ~resp.ok THEN Failed("Failed to create snapshot: ", resp)
    ELSE IF resp.out.some
         THEN Ok([success |-> TRUE, id |-> resp.out.v])
         ELSE Err(<<"No snapshot ID was returned">>)

delete_snapshot_request(snapshot_id) ==
    [op |-> "DeleteSnapshot", snapshot_id |-> snapshot_id]

delete_snapshot(resp) ==
    IF ~resp.ok THEN Failed("Failed to delete snapshot: ", resp)
    ELSE Ok([success |-> TRUE])

has_snapshot_request(snapshot_id) ==
    [op |-> "DescribeSnapshots", snapshot_ids |-> <<snapshot_id>>]

has_snapshot(resp) ==
    IF resp.ok
    THEN Ok([success |-> TRUE, exists |-> resp.out # <<>>])
    ELSE IF Contains(resp.err, "InvalidSnapshot.NotFound")
         THEN Ok([success |-> TRUE, exists |-> FALSE])
         ELSE Failed("Failed to check if snapshot exists: ", resp)

reboot_worker_request(worker_id) ==
    [op |-> "RebootInstances", instance_ids |-> <<worker_id>>]

reboot_worker(resp) ==
    IF ~resp.ok THEN Failed("Failed to reboot EC2 instance: ", resp)
    ELSE Ok([success |-> TRUE])

set_worker_metadata_request(worker_id, key, value) ==
    [op |-> "CreateTags",
     resources |-> <<worker_id>>,
     tags |-> <<Tag(key, value)>>]

set_worker_metadata(resp) ==
    IF ~resp.ok THEN Failed("Failed to set instance metadata: ", resp)
    ELSE Ok([success |-> TRUE])

\* snapshot_volume calls create_snapshot and wraps its result
snapshot_volume_request(source_volume_id, snapshot_name) ==
    create_snapshot_request(source_volume_id, snapshot_name)

snapshot_volume(source_volume_id, resp) ==
    LET snapshot_result == create_snapshot(resp) IN
    IF snapshot_result.kind = "Err" THEN snapshot_result
    ELSE IF "id" \in DOMAIN snapshot_result.value
         THEN Ok([success |-> TRUE,
                  id |-> snapshot_result.value.id,
                  source_volume_id |-> source_volume_id])
         ELSE Err(<<"Failed to get snapshot ID">>)

(***************************************************************************)
(* execute_action: parameter extraction and dispatch.                      *)
(***************************************************************************)
\* The methods impl AwsExtension defines (test_install is commented out)
Methods ==
    {"list_workers", "create_worker", "delete_worker", "get_worker",
     "has_worker", "start_worker", "get_volumes", "has_volume",
     "create_volume", "delete_volume", "attach_volume", "detach_volume",
     "create_snapshot", "delete_snapshot", "has_snapshot", "reboot_worker",
     "set_worker_metadata", "snapshot_volume"}

\* The arms of execute_action's match; each arm calls the method of its name
Arms ==
    {"test_install", "list_workers", "create_worker", "delete_worker",
     "get_worker", "has_worker", "start_worker", "get_volumes",
     "has_volume", "create_volume", "delete_volume", "attach_volume",
     "detach_volume", "create_snapshot", "delete_snapshot", "has_snapshot",
     "reboot_worker", "set_worker_metadata", "snapshot_volume"}

\* validation::extract_string(params, n)?
XString(n) == [name |-> n, how |-> "string", default |-> None]
\* mutant: the absent parameter becomes the empty string
XStringOr_Empty(n, d) == [name |-> n, how |-> "string_opt", default |-> Some("")]

\* validation::extract_string_opt(params, n)?.unwrap_or_else(|| d)
XStringOr(n, d) == [name |-> n, how |-> "string_opt", default |-> Some(d)]
\* validation::extract_int(params, n)?
XInt(n) == [name |-> n, how |-> "int", default |-> None]

\* The extractions each arm performs, in order
Extraction(action) ==
    CASE action = "create_worker" ->
            <<XString("worker_name"),
              XStringOr("instance_type", "t2.micro"),
              XStringOr("ami", "ami-0c55b159cbfafe1f0")>>
      [] action \in {"delete_worker", "get_worker", "has_worker",
                     "start_worker", "reboot_worker"} ->
            <<XString("worker_id")>>
      [] action \in {"has_volume", "delete_volume", "detach_volume"} ->
            <<XString("volume_id")>>
      [] action = "create_volume" ->
            <<XInt("size_gb"),
              XString("availability_zone"),
              XStringOr("volume_type", "gp2")>>
      [] action = "attach_volume" ->
            <<XString("worker_id"), XString("volume_id"), XString("device_name")>>
      [] action = "create_snapshot" ->
            <<XString("volume_id"), XString("snapshot_name")>>
      [] action \in {"delete_snapshot", "has_snapshot"} ->
            <<XString("snapshot_id")>>
      [] action = "set_worker_metadata" ->
            <<XString("worker_id"), XString("key"), XString("value")>>
      [] action = "snapshot_volume" ->
            <<XString("source_volume_id"), XString("snapshot_name")>>
      [] OTHER -> <<>>

\* One extraction: Ok(value) or the validation error
ExtractOne(params, x) ==
    CASE x.how = "string" -> extract_string(params, x.name)
      [] x.how = "int" -> extract_int(params, x.name)
      [] x.how = "string_opt" ->
            LET r == extract_string_opt(params, x.name) IN
            IF r.kind = "Err" THEN r ELSE Ok(UnwrapOr(r.value, x.default.v))

\* The `?` chain of an arm: the first failing extraction returns its error,
\* otherwise the extracted arguments by name
ExtractAll(action, params) ==
    LET xs == Extraction(action)
        bad == {i \in DOMAIN xs : ExtractOne(params, xs[i]).kind = "Err"}
    IN  IF bad # {}
        THEN ExtractOne(params, xs[CHOOSE i \in bad : \A j \in bad : i <= j])
        ELSE Ok([n \in {xs[i].name : i \in DOMAIN xs} |->
                    LET i == CHOOSE k \in DOMAIN xs : xs[k].name = n
                    IN  ExtractOne(params, xs[i]).value])

\* Extract common region parameter:
\* validation::extract_string_opt(params, "region").ok().flatten()
ExtractRegion(params) == Flatten(ResultOk(extract_string_opt(params, "region")))

\* mutant: the message does not name the action
NotFound_Unnamed(action) == Err(<<"Action not found">>)

\* The result of the match's last arm
NotFound(action) == Err(<<"Action '", action, "' not found">>)

\* Clone self to create a mutable version for the async functions
CloneSelf(self) ==
    [name |-> self.name,
     provider_type |-> self.provider_type,
     default_settings |-> self.default_settings,
     ec2_client |-> self.ec2_client]

\* The request the operation of `action` sends, from the extracted arguments
RequestOf(action, a) ==
    CASE action = "list_workers" -> list_workers_request
      [] action = "create_worker" ->
            create_worker_request(a.worker_name, a.instance_type, a.ami)
      [] action = "delete_worker" -> delete_worker_request(a.worker_id)
      [] action = "get_worker" -> get_worker_request(a.worker_id)
      [] action = "has_worker" -> has_worker_request(a.worker_id)
      [] action = "start_worker" -> start_worker_request(a.worker_id)
      [] action = "get_volumes" -> get_volumes_request
      [] action = "has_volume" -> has_volume_request(a.volume_id)
      [] action = "create_volume" ->
            create_volume_request(a.size_gb, a.availability_zone, a.volume_type)
      [] action = "delete_volume" -> delete_volume_request(a.volume_id)
      [] action = "attach_volume" ->
            attach_volume_request(a.worker_id, a.volume_id, a.device_name)
      [] action = "detach_volume" -> detach_volume_request(a.volume_id)
      [] action = "create_snapshot" ->
            create_snapshot_request(a.volume_id, a.snapshot_name)
      [] action = "delete_snapshot" -> delete_snapshot_request(a.snapshot_id)
      [] action = "has_snapshot" -> has_snapshot_request(a.snapshot_id)
      [] action = "reboot_worker" -> reboot_worker_request(a.worker_id)
      [] action = "set_worker_metadata" ->
            set_worker_metadata_request(a.worker_id, a.key, a.value)
      [] action = "snapshot_volume" ->
            snapshot_volume_request(a.source_volume_id, a.snapshot_name)

\* The ActionResult of the operation of `action` for the response it awaited
ResultOf(action, a, resp) ==
    CASE action = "list_workers" -> list_workers(resp)
      [] action = "create_worker" -> create_worker(a.worker_name, resp)
      [] action = "delete_worker" -> delete_worker(resp)
      [] action = "get_worker" -> get_worker(a.worker_id, resp)
      [] action = "has_worker" -> has_worker(resp)
      [] action = "start_worker" -> start_worker(a.worker_id, resp)
      [] action = "get_volumes" -> get_volumes(resp)
      [] action = "has_volume" -> has_volume(resp)
      [] action = "create_volume" -> create_volume(resp)
      [] action = "delete_volume" -> delete_volume(resp)
      [] action = "attach_volume" -> attach_volume(resp)
      [] action = "detach_volume" -> detach_volume(resp)
      [] action = "create_snapshot" -> create_snapshot(resp)
      [] action = "delete_snapshot" -> delete_snapshot(resp)
      [] action = "has_snapshot" -> has_snapshot(resp)
      [] action = "reboot_worker" -> reboot_worker(resp)
      [] action = "set_worker_metadata" -> set_worker_metadata(resp)
      [] action = "snapshot_volume" -> snapshot_volume(a.source_volume_id, resp)

\* The call ended in a panic instead of returning
Panicked == [kind |-> "Panic", msg |-> <<"attempt to multiply with overflow">>]

\* How the call can end for the response it awaited: with the operation's
\* result, or, where an arithmetic overflow is reached, with the panic of a
\* build that checks overflows
Outcomes(action, a, resp) ==
    {ResultOf(action, a, resp)} \cup
    (IF action = "get_volumes" /\ resp.ok /\ parse_ec2_volumes_panics(resp.out)
     THEN {Panicked} ELSE {})

(***************************************************************************)
(* The environment: what the host passes and what the API answers.         *)
(***************************************************************************)
\* An action name the catalog does not have
UnknownAction == "resize_volume"

ActionNames == Arms \cup {UnknownAction}

\* The parameter keys the host passes with an action
KeysOf(action) ==
    {Extraction(action)[i].name : i \in DOMAIN Extraction(action)} \cup {"region"}

\* A string the host passes under a key; every key has its own, so that a
\* value that ends up in another key's place shows
StringOf(key) ==
    CASE key = "worker_name" -> "web-1"
      [] key = "instance_type" -> "m5.large"
      [] key = "ami" -> "ami-7"
      [] key = "worker_id" -> "i-7"
      [] key = "volume_id" -> "vol-7"
      [] key = "availability_zone" -> "eu-west-1b"
      [] key = "volume_type" -> "io1"
      [] key = "device_name" -> "/dev/sdf"
      [] key = "snapshot_name" -> "nightly"
      [] key = "snapshot_id" -> "snap-7"
      [] key = "key" -> "env"
      [] key = "value" -> "prod"
      [] key = "source_volume_id" -> "vol-8"
      [] OTHER -> "x"

\* The values the host passes under a key: of the declared type and of
\* another type
ValuesOf(key) ==
    CASE key = "region" ->
            <<JString("us-east-1"), JString("eu-west-1"), JNumber(I64(0, 7))>>
      [] key = "size_gb" ->
            <<JNumber(I64(0, 8)), JNumber(I64(2, 8)), JString("8")>>
      [] key = "instance_type" ->
            <<JString("t2.micro"), JString("t2.small"), JString("t3.medium"),
              JString("m5.large"), JString("m5.xlarge"), JString("c5.4xlarge"),
              JNumber(I64(0, 7))>>
      [] OTHER -> <<JString(StringOf(key)), JNumber(I64(0, 7))>>

\* The parameter maps: any subset of the keys, each with one of its values
\* (a choice of 0 leaves the key out)
ParamsOf(action) ==
    LET keys == KeysOf(action)
        most == CHOOSE n \in {Len(ValuesOf(k)) : k \in keys} :
                    \A k \in keys : Len(ValuesOf(k)) <= n
        choices == {c \in [keys -> 0..most] :
                        \A k \in keys : c[k] <= Len(ValuesOf(k))}
    IN  {[k \in {x \in keys : c[x] > 0} |-> ValuesOf(k)[c[k]]] : c \in choices}

\* What the host calls execute_action with
Inputs ==
    UNION {{<<action, params>> : params \in ParamsOf(action)} :
                action \in ActionNames}

\* The empty parameter map
NoParams == <<>>

InstA ==
    [instance_id |-> Some("i-1"),
     state |-> Some("running"),
     instance_type |-> Some("t2.micro"),
     tags |-> <<Tag("Name", "web")>>,
     public_ip_address |-> Some("198.51.100.7"),
     private_ip_address |-> Some("10.0.0.7"),
     availability_zone |-> Some("us-east-1a")]

InstB ==
    [instance_id |-> None,
     state |-> None,
     instance_type |-> None,
     tags |-> <<>>,
     public_ip_address |-> None,
     private_ip_address |-> None,
     availability_zone |-> None]

InstC ==
    [instance_id |-> Some("i-2"),
     state |-> None,
     instance_type |-> None,
     tags |-> <<Tag("env", "prod"), [key |-> Some("Name"), value |-> None],
                Tag("Name", "db")>>,
     public_ip_address |-> None,
     private_ip_address |-> Some("10.0.0.8"),
     availability_zone |-> None]

InstD ==
    [instance_id |-> Some("i-3"),
     state |-> Some("stopped"),
     instance_type |-> Some("m5.large"),
     tags |-> <<Tag("env", "prod"), Tag("Name", "db"), Tag("Name", "old")>>,
     public_ip_address |-> None,
     private_ip_address |-> None,
     availability_zone |-> Some("eu-west-1b")]

InstE ==
    [instance_id |-> Some("i-4"),
     state |-> Some("pending"),
     instance_type |-> None,
     tags |-> <<[key |-> None, value |-> Some("Name")], Tag("env", "prod")>>,
     public_ip_address |-> None,
     private_ip_address |-> None,
     availability_zone |-> None]

VolA ==
    [volume_id |-> Some("vol-1"),
     size |-> Some(8),
     state |-> Some("in-use"),
     availability_zone |-> Some("us-east-1a"),
     attachments |-> <<[instance_id |-> Some("i-1")]>>]

VolB ==
    [volume_id |-> None,
     size |-> None,
     state |-> None,
     availability_zone |-> None,
     attachments |-> <<>>]

VolC ==
    [volume_id |-> Some("vol-2"),
     size |-> Some(2097152),
     state |-> None,
     availability_zone |-> None,
     attachments |-> <<[instance_id |-> None], [instance_id |-> Some("i-1")]>>]

\* The outputs of a successful request, by API operation
Outputs(op) ==
    CASE op = "DescribeInstances" ->
            {<<>>, <<<<>>>>, <<<<InstA>>>>, <<<<>>, <<InstB, InstA>>>>,
             <<<<InstC, InstB, InstD>>, <<>>, <<InstE, InstA>>>>}
      [] op = "RunInstances" -> {<<>>, <<InstB>>, <<InstA>>}
      [] op = "DescribeVolumes" -> {<<>>, <<VolA>>, <<VolB, VolA>>, <<VolA, VolC>>}
      [] op = "CreateVolume" -> {None, Some("vol-9")}
      [] op = "CreateSnapshot" -> {None, Some("snap-9")}
      [] op = "DescribeSnapshots" -> {<<>>, <<[snapshot_id |-> Some("snap-1")]>>}
      [] OTHER -> {<<>>}

\* The error texts of a failed request
Errors ==
    {<<"ServiceError", "InvalidInstanceID.NotFound">>,
     <<"ServiceError", "InvalidVolume.NotFound">>,
     <<"ServiceError", "InvalidSnapshot.NotFound">>,
     <<"DispatchFailure", "timeout">>}

Responses(op) ==
    {ApiOk(out) : out \in Outputs(op)} \cup {ApiErr(e) : e \in Errors}

(***************************************************************************)
(* The state.                                                              *)
(***************************************************************************)
VARIABLES
    ext,        \* the extension instance the host holds
    built,      \* the clients constructed since the instance was created
    calls,      \* execute_action calls made so far
    pc,         \* where the running execute_action call is: idle when none
    call,       \* the interface call in progress, or the last one
    aws_ext,    \* execute_action's private copy of the extension
    region_ref, \* execute_action's extracted region
    args,       \* execute_action's extracted arguments
    client,     \* the client handle the operation obtained
    sent,       \* the requests issued during the call, in order
    received,   \* the responses the call received, in order
    inflight,   \* the requests issued and not yet answered
    result      \* what the last interface call returned

vars == <<ext, built, calls, pc, call, aws_ext, region_ref, args, client,
          sent, received, inflight, result>>

NoResult == [kind |-> "none"]

\* The state of the call's locals when no operation is running
Idle ==
    /\ pc' = "idle"
    /\ aws_ext' = None
    /\ region_ref' = None
    /\ args' = <<>>
    /\ client' = None
    /\ sent' = <<>>
    /\ received' = <<>>
    /\ inflight' = {}

Init ==
    /\ ext = new
    /\ built = <<>>
    /\ calls = 0
    /\ pc = "idle"
    /\ call = [method |-> "none"]
    /\ aws_ext = None
    /\ region_ref = None
    /\ args = <<>>
    /\ client = None
    /\ sent = <<>>
    /\ received = <<>>
    /\ inflight = {}
    /\ result = NoResult

(***************************************************************************)
(* The interface methods.                                                  *)
(***************************************************************************)
ListActions ==
    /\ pc = "idle"
    /\ call' = [method |-> "list_actions"]
    /\ result' = [kind |-> "Actions", names |-> list_actions]
    /\ Idle
    /\ UNCHANGED <<ext, built, calls>>

GetActionDefinition(action) ==
    /\ pc = "idle"
    /\ call' = [method |-> "get_action_definition", action |-> action]
    /\ result' = [kind |-> "Definition", def |-> get_action_definition(action)]
    /\ Idle
    /\ UNCHANGED <<ext, built, calls>>

\* execute_action up to the first await of the operation it dispatches to:
\* the runtime, the private copy, the region, the arm's extractions
ExecuteAction(action, params, runtime_ok) ==
    /\ pc = "idle"
    /\ calls < MaxCalls
    /\ calls' = calls + 1
    /\ call' = [method |-> "execute_action", action |-> action,
                params |-> params, runtime_ok |-> runtime_ok]
    /\ UNCHANGED <<ext, built>>
    /\ LET ex == ExtractAll(action, params) IN
       IF ~runtime_ok
       THEN result' = Err(<<"Failed to create runtime: ">>) /\ Idle
       ELSE IF action \notin Arms
       THEN result' = NotFound(action) /\ Idle
       ELSE IF action \notin Methods
       THEN result' = [kind |-> "NoMethod", method |-> action] /\ Idle
       ELSE IF ex.kind = "Err"
       THEN result' = ex /\ Idle
       ELSE /\ result' = NoResult
            /\ pc' = "get_client"
            /\ aws_ext' = Some(CloneSelf(ext))
            /\ region_ref' = ExtractRegion(params)
            /\ args' = ex.value
            /\ client' = None
            /\ sent' = <<>>
            /\ received' = <<>>
            /\ inflight' = {}

\* let client = self.get_client(region).await?;
GetClient ==
    /\ pc = "get_client"
    /\ LET r == get_client(aws_ext.v, region_ref, built) IN
       /\ aws_ext' = Some(r.self)
       /\ client' = Some(r.client)
       /\ built' = r.built
    /\ pc' = "send"
    /\ UNCHANGED <<ext, calls, call, region_ref, args, sent, received, inflight,
                   result>>

\* client.<operation>()...send()
Send ==
    /\ pc = "send"
    /\ sent' = Append(sent, [request |-> RequestOf(call.action, args),
                             client |-> client.v])
    /\ inflight' = inflight \cup {Len(sent) + 1}
    /\ pc' = "await"
    /\ UNCHANGED <<ext, built, calls, call, aws_ext, region_ref, args, client,
                   received, result>>

\* mutant: the call works on the receiver itself
SelfAfter_Shared(self, copy) == copy

\* mutant: the client the copy built is stored back into the receiver
SelfAfter_ClientKept(self, copy) == [self EXCEPT !.ec2_client = copy.ec2_client]

\* The receiver after the call: execute_action takes &self, and the copy it
\* worked on is dropped when it returns
SelfAfter(self, copy) == self

\* .await, the operation's handling of the response, and the return
Respond ==
    /\ pc = "await"
    /\ \E resp \in Responses(sent[Len(sent)].request.op) :
         /\ received' = Append(received, resp)
         /\ result' \in Outcomes(call.action, args, resp)
    /\ inflight' = inflight \ {Len(sent)}
    /\ ext' = SelfAfter(ext, aws_ext.v)
    /\ pc' = "idle"
    /\ aws_ext' = None
    /\ UNCHANGED <<built, calls, call, region_ref, args, client, sent>>

Next ==
    \/ ListActions
    \/ \E action \in ActionNames : GetActionDefinition(action)
    \/ \E input \in Inputs : ExecuteAction(input[1], input[2], TRUE)
    \/ \E action \in ActionNames : ExecuteAction(action, NoParams, FALSE)
    \/ GetClient
    \/ Send
    \/ Respond

Spec == Init /\ [][Next]_vars

(***************************************************************************)
(* Vocabulary of the properties.                                           *)
(***************************************************************************)
\* An execute_action call is in progress or was the last interface call
InExecute == call.method = "execute_action"

\* The last interface call was execute_action, and it has returned
Returned == InExecute /\ pc = "idle"

\* ... and its runtime was built, so that the call reached the match
Dispatched == Returned /\ call.runtime_ok

\* The JSON type a kind of extraction accepts
TypeOf(how) == IF how = "int" THEN "int" ELSE "str"

\* Parameter x of the arm is missing though extracted as required, or is
\* present with a value of the wrong type
BadParam(params, x) ==
    \/ x.name \notin DOMAIN params /\ x.how \in {"string", "int"}
    \/ x.name \in DOMAIN params /\ params[x.name].t # TypeOf(x.how)

ParamsValidate(action, params) ==
    \A i \in DOMAIN Extraction(action) : ~BadParam(params, Extraction(action)[i])

\* The result is the error of a rejected parameter
IsValidationErr(r) == r.kind = "Err" /\ r.msg[1] = "parameter"

HasActions == {"has_worker", "has_volume", "has_snapshot"}

\* The declared parameters of an action of the catalog, as a set
Declared(action) ==
    LET ps == get_action_definition(action).v.parameters
    IN  {ps[i] : i \in DOMAIN ps}

(***************************************************************************)
(* C1: the catalog is consistent across the three interface methods: for   *)
(* every name list_actions returns, get_action_definition returns a        *)
(* definition of that name and execute_action dispatches the name to an    *)
(* implemented operation (never "not found"); get_action_definition        *)
(* returns a definition only for listed names.                             *)
(***************************************************************************)
C1_CatalogConsistent ==
    /\ call.method = "get_action_definition" =>
          /\ call.action \in Listed =>
                result.def.some /\ result.def.v.name = call.action
          /\ result.def.some => call.action \in Listed
    /\ Dispatched /\ call.action \in Listed =>
          /\ result.kind # "NoMethod"
          /\ result # NotFound(call.action)

(***************************************************************************)
(* C2: over any sequence of execute_action calls on one extension instance *)
(* a client is built at most once, and every action that needs a client    *)
(* uses that one handle.                                                   *)
(***************************************************************************)
C2_ClientBuiltOnce ==
    /\ Len(built) <= 1
    /\ client.some => client.v = built[1]

(***************************************************************************)
(* C3: parameter validation precedes the SDK call: when a parameter the    *)
(* arm extracts is missing (if required) or of the wrong type, the call    *)
(* returns Err having built no client and issued no request; a request is  *)
(* issued only after every parameter of the action has been extracted.     *)
(***************************************************************************)
C3_ValidationPrecedesRequest ==
    InExecute /\ call.runtime_ok /\ call.action \in Arms =>
        /\ ~ParamsValidate(call.action, call.params) =>
              /\ pc = "idle"
              /\ result.kind = "Err"
              /\ client = None
              /\ sent = <<>>
        /\ (client.some \/ sent # <<>>) =>
              /\ ParamsValidate(call.action, call.params)
              /\ \A i \in DOMAIN Extraction(call.action) :
                    Extraction(call.action)[i].name \in DOMAIN args

C3_Witness ==
    /\ Returned
    /\ call.action = "create_worker"
    /\ "worker_name" \in DOMAIN call.params
    /\ call.params["worker_name"].t = "str"
    /\ "ami" \in DOMAIN call.params
    /\ call.params["ami"].t = "int"
    /\ IsValidationErr(result)
    /\ sent = <<>>

(***************************************************************************)
(* C4: for every action, the parameters get_action_definition declares as  *)
(* required are exactly those execute_action rejects when absent, and for  *)
(* every parameter declared optional with a default the value used when    *)
(* the parameter is absent is the declared default.                        *)
(***************************************************************************)
C4_DeclaredMatchesExtracted ==
    InExecute /\ call.runtime_ok /\ call.action \in Listed =>
        /\ \A p \in Declared(call.action) :
              p.required /\ p.name \notin DOMAIN call.params =>
                  pc = "idle" /\ IsValidationErr(result)
        /\ (\A p \in Declared(call.action) :
                /\ p.required => p.name \in DOMAIN call.params
                /\ p.name \in DOMAIN call.params =>
                      call.params[p.name].t =
                          (IF p.type = "Integer" THEN "int" ELSE "str"))
              => ~IsValidationErr(result)
        /\ \A p \in Declared(call.action) :
              ~p.required /\ p.name \notin DOMAIN call.params /\ sent # <<>> =>
                  IF p.name = "region"
                  THEN sent[1].client.region = p.default.v
                  ELSE args[p.name] = p.default.v

C4_Witness ==
    /\ Returned
    /\ call.action = "create_volume"
    /\ DOMAIN call.params = {"size_gb", "availability_zone"}
    /\ sent # <<>>
    /\ sent[1].request.volume_type = "gp2"
    /\ sent[1].client.region = "us-east-1"

(***************************************************************************)
(* C5: each execute_action call whose parameters validate issues exactly   *)
(* one API request, of the operation that corresponds to the action and    *)
(* carrying the caller's identifiers unchanged, and that request has been  *)
(* answered when execute_action returns.                                   *)
(***************************************************************************)
\* The API operation that corresponds to an action
C5_Operation(action) ==
    CASE action = "test_install" -> "DescribeRegions"
      [] action \in {"list_workers", "get_worker", "has_worker"} -> "DescribeInstances"
      [] action = "create_worker" -> "RunInstances"
      [] action = "delete_worker" -> "TerminateInstances"
      [] action = "start_worker" -> "StartInstances"
      [] action = "reboot_worker" -> "RebootInstances"
      [] action \in {"get_volumes", "has_volume"} -> "DescribeVolumes"
      [] action = "create_volume" -> "CreateVolume"
      [] action = "delete_volume" -> "DeleteVolume"
      [] action = "attach_volume" -> "AttachVolume"
      [] action = "detach_volume" -> "DetachVolume"
      [] action \in {"create_snapshot", "snapshot_volume"} -> "CreateSnapshot"
      [] action = "delete_snapshot" -> "DeleteSnapshot"
      [] action = "has_snapshot" -> "DescribeSnapshots"
      [] action = "set_worker_metadata" -> "CreateTags"

\* The identifiers of the request are the caller's, each in its place
C5_Identifiers(action, params, req) ==
    /\ action \in {"delete_worker", "get_worker", "has_worker", "start_worker",
                   "reboot_worker"} =>
            req.instance_ids = <<params["worker_id"].s>>
    /\ action \in {"delete_volume", "detach_volume", "create_snapshot"} =>
            req.volume_id = params["volume_id"].s
    /\ action = "has_volume" => req.volume_ids = <<params["volume_id"].s>>
    /\ action = "snapshot_volume" => req.volume_id = params["source_volume_id"].s
    /\ action \in {"delete_snapshot"} => req.snapshot_id = params["snapshot_id"].s
    /\ action = "has_snapshot" => req.snapshot_ids = <<params["snapshot_id"].s>>
    /\ action = "attach_volume" =>
            /\ req.instance_id = params["worker_id"].s
            /\ req.volume_id = params["volume_id"].s
            /\ req.device = params["device_name"].s
    /\ action = "set_worker_metadata" => req.resources = <<params["worker_id"].s>>

C5_ExactlyOneRequest ==
    /\ InExecute => Len(sent) <= 1
    /\ Dispatched /\ call.action \in Listed
          /\ ParamsValidate(call.action, call.params) =>
          /\ Len(sent) = 1
          /\ Len(received) = 1
          /\ inflight = {}
          /\ sent[1].request.op = C5_Operation(call.action)
          /\ C5_Identifiers(call.action, call.params, sent[1].request)

(***************************************************************************)
(* C6: has_worker, has_volume and has_snapshot classify the answer three   *)
(* ways: a successful response gives exists = (the response holds at least *)
(* one instance / volume / snapshot); a failure whose text contains the    *)
(* resource's NotFound code gives exists = false; every other failure      *)
(* gives Err.                                                              *)
(***************************************************************************)
C6_Code(action) ==
    CASE action = "has_worker" -> "InvalidInstanceID.NotFound"
      [] action = "has_volume" -> "InvalidVolume.NotFound"
      [] action = "has_snapshot" -> "InvalidSnapshot.NotFound"

\* The response holds at least one resource of the action's kind
C6_HasOne(action, out) ==
    IF action = "has_worker"
    THEN \E i \in DOMAIN out : Len(out[i]) >= 1
    ELSE Len(out) >= 1

C6_ExistenceClassified ==
    Returned /\ call.action \in HasActions /\ received # <<>> =>
        LET r == received[1] IN
        IF r.ok
        THEN result = Ok([success |-> TRUE,
                          exists |-> C6_HasOne(call.action, r.out)])
        ELSE IF \E i \in DOMAIN r.err : r.err[i] = C6_Code(call.action)
        THEN result = Ok([success |-> TRUE, exists |-> FALSE])
        ELSE result.kind = "Err"

C6_Witness ==
    /\ Returned
    /\ call.action = "has_worker"
    /\ received = <<ApiErr(<<"ServiceError", "InvalidVolume.NotFound">>)>>
    /\ result.kind = "Err"

(***************************************************************************)
(* C7: there is no retry: for every action other than the three has_*      *)
(* checks, when the request fails execute_action returns Err with the      *)
(* action's own message, having issued that one request only, and never an *)
(* Ok result.                                                              *)
(***************************************************************************)
C7_Message(action) ==
    CASE action = "list_workers" -> "Failed to list EC2 instances: "
      [] action = "create_worker" -> "Failed to create EC2 instance: "
      [] action = "delete_worker" -> "Failed to terminate EC2 instance: "
      [] action = "get_worker" -> "Failed to get EC2 instance details: "
      [] action = "start_worker" -> "Failed to start EC2 instance: "
      [] action = "get_volumes" -> "Failed to list EBS volumes: "
      [] action = "create_volume" -> "Failed to create EBS volume: "
      [] action = "delete_volume" -> "Failed to delete EBS volume: "
      [] action = "attach_volume" -> "Failed to attach EBS volume: "
      [] action = "detach_volume" -> "Failed to detach EBS volume: "
      [] action \in {"create_snapshot", "snapshot_volume"} ->
            "Failed to create snapshot: "
      [] action = "delete_snapshot" -> "Failed to delete snapshot: "
      [] action = "reboot_worker" -> "Failed to reboot EC2 instance: "
      [] action = "set_worker_metadata" -> "Failed to set instance metadata: "

C7_NoRetry ==
    Returned /\ call.action \notin HasActions /\ received # <<>>
        /\ ~received[1].ok =>
        /\ result.kind = "Err"
        /\ result.msg = <<C7_Message(call.action)>> \o received[1].err
        /\ Len(sent) = 1
        /\ Len(received) = 1

C7_Witness ==
    /\ Returned
    /\ call.action = "snapshot_volume"
    /\ received = <<ApiErr(<<"DispatchFailure", "timeout">>)>>
    /\ result.kind = "Err"

C9_OkHasSuccess ==
    Returned /\ result.kind = "Ok" =>
        /\ "success" \in DOMAIN result.value
        /\ result.value.success = TRUE

(***************************************************************************)
(* C10: the request of an action is sent with a client configured for the  *)
(* region of that action's own "region" parameter, or for us-east-1 when   *)
(* the parameter is absent or not a string, whatever the regions of the    *)
(* earlier calls were.                                                     *)
(***************************************************************************)
C10_Region(params) ==
    IF "region" \in DOMAIN params /\ params["region"].t = "str"
    THEN params["region"].s
    ELSE "us-east-1"

C10_RegionOfOwnCall ==
    InExecute =>
        \A i \in DOMAIN sent : sent[i].client.region = C10_Region(call.params)

C10_Witness ==
    /\ Returned
    /\ Len(built) = 2
    /\ built[1].region = "eu-west-1"
    /\ "region" \in DOMAIN call.params
    /\ call.params["region"].t = "int"
    /\ sent # <<>>
    /\ sent[1].client.region = "us-east-1"

(***************************************************************************)
(* C11: execute_action leaves the extension it is called on unchanged:     *)
(* after any sequence of calls, successful or failed, name, provider_type, *)
(* default_settings and ec2_client are as right after new() (ec2_client is *)
(* still None), because every call works on a private copy: the client a   *)
(* call builds is held by the copy only.                                   *)
(***************************************************************************)
C11_ExtensionUnchanged ==
    /\ ext = new
    /\ ext.ec2_client = None
    /\ pc \in {"send", "await"} =>
          aws_ext.some /\ aws_ext.v.ec2_client = client /\ client.some

C11_Witness ==
    /\ Returned
    /\ calls = 2
    /\ Len(built) = 2
    /\ received # <<>>
    /\ received[1].ok
    /\ result.kind = "Ok"
    /\ ext.ec2_client = None

(***************************************************************************)
(* C12: create_volume asks the provider for a volume whose size equals the *)
(* size_gb parameter, for every integer size_gb the validation accepts:    *)
(* the 64-bit parameter is never sent as a different number after its      *)
(* conversion to the request's 32-bit size field.                          *)
(***************************************************************************)
C12_SizeAsRequested ==
    InExecute /\ call.action = "create_volume" /\ sent # <<>> =>
        AsI64(sent[1].request.size) = call.params["size_gb"].n

(***************************************************************************)
(* C13: get_volumes reports, for every volume of the response that has an  *)
(* id, size_mb equal to 1024 times the volume's size in GB (0 when the     *)
(* size is missing), for every 32-bit size, without overflow or            *)
(* wrap-around; volumes without an id are omitted, id and path are both    *)
(* the volume id, and attached_to is the instance id of the first          *)
(* attachment or null.                                                     *)
(***************************************************************************)
\* 1024 * s as a 64-bit number
C13_Times1024(s) == I64(s \div 2097152, (s % 2097152) * 1024)

C13_Entry(volume) ==
    [id |-> volume.volume_id.v,
     path |-> volume.volume_id.v,
     size_mb |-> C13_Times1024(IF volume.size.some THEN volume.size.v ELSE 0),
     attached_to |->
        IF Len(volume.attachments) >= 1
        THEN volume.attachments[1].instance_id ELSE None]

C13_Expected(volumes) ==
    LET withId == SelectSeq(volumes, LAMBDA v : v.volume_id.some)
    IN  [i \in DOMAIN withId |-> C13_Entry(withId[i])]

C13_Reported(vs) ==
    [i \in DOMAIN vs |->
        [id |-> vs[i].id, path |-> vs[i].path, size_mb |-> vs[i].size_mb,
         attached_to |-> vs[i].attached_to]]

C13_VolumesReported ==
    Returned /\ call.action = "get_volumes" /\ received # <<>>
        /\ received[1].ok =>
        /\ result.kind = "Ok"
        /\ C13_Reported(result.value.volumes) = C13_Expected(received[1].out)

(***************************************************************************)
(* C14: create_worker requests exactly one instance (min_count = max_count *)
(* = 1) tagged Name = worker_name, with the instance type equal to the     *)
(* instance_type parameter when it is one of t2.micro, t2.small,           *)
(* t2.medium, t3.micro, t3.small, t3.medium, m5.large, m5.xlarge, and      *)
(* t2.micro for every other string, without reporting an error for the     *)
(* unmatched type.                                                         *)
(***************************************************************************)
C14_Known ==
    {"t2.micro", "t2.small", "t2.medium", "t3.micro", "t3.small",
     "t3.medium", "m5.large", "m5.xlarge"}

\* The instance_type the caller gave, or the default of the absent parameter
C14_Given(params) ==
    IF "instance_type" \in DOMAIN params THEN params["instance_type"].s
    ELSE "t2.micro"

RECURSIVE C15_Instances(_)
C15_Instances(reservations) ==
    IF Len(reservations) = 0 THEN <<>>
    ELSE C15_Instances(SubSeq(reservations, 1, Len(reservations) - 1))
            \o reservations[Len(reservations)]

C15_Name(tags) ==
    LET named == {i \in DOMAIN tags : tags[i].key = Some("Name")} IN
    IF named = {} THEN "unnamed"
    ELSE LET first == CHOOSE i \in named : \A j \in named : i <= j IN
         IF tags[first].value.some THEN tags[first].value.v ELSE "unnamed"

C15_Entry(instance) ==
    [id |-> instance.instance_id.v,
     name |-> C15_Name(instance.tags),
     state |-> IF instance.state.some THEN instance.state.v ELSE "unknown",
     instance_type |->
        IF instance.instance_type.some THEN instance.instance_type.v
        ELSE "unknown"]

C15_Expected(reservations) ==
    LET withId == SelectSeq(C15_Instances(reservations),
                            LAMBDA x : x.instance_id.some)
    IN  [i \in DOMAIN withId |-> C15_Entry(withId[i])]

C15_Listed(ws) ==
    [i \in DOMAIN ws |->
        [id |-> ws[i].id, name |-> ws[i].name, state |-> ws[i].state,
         instance_type |-> ws[i].instance_type]]

C15_WorkersListed ==
    Returned /\ call.action = "list_workers" /\ received # <<>>
        /\ received[1].ok =>
        /\ result.kind = "Ok"
        /\ C15_Listed(result.value.workers) = C15_Expected(received[1].out)

C15_Witness ==
    /\ Returned
    /\ call.action = "list_workers"
    /\ received # <<>>
    /\ received[1].ok
    /\ Len(received[1].out) = 3
    /\ result.kind = "Ok"
    /\ Len(result.value.workers) = 4
    /\ result.value.workers[1].name = "unnamed"
    /\ result.value.workers[1].state = "unknown"
    /\ result.value.workers[2].name = "db"
    /\ result.value.workers[4].id = "i-1"

=============================================================================
